---- MODULE Spec2Model ----
(***************************************************************************)
(* The test-environment fixtures of tests/conftest.py as a state machine.  *)
(*                                                                         *)
(* Spec        the database fixtures: setup_test_database (session scope)  *)
(*             and db_session (one handle per test), over several runs.    *)
(* SpecServer  the live-process fixture fastapi_server with the health     *)
(*             polling of wait_for_server.                                 *)
(*                                                                         *)
(* pytest is the scheduler: it runs the session-scope setup when the first *)
(* test asks for it, runs tests one after the other, resumes a yield       *)
(* fixture for its teardown, and reports a failed setup to every test      *)
(* without running it.                                                     *)
(***************************************************************************)
EXTENDS Integers, Sequences, FiniteSets

\* ---------------------------------------------------------------- bounds
MaxRuns == 2
MaxTests == 2
MaxRows == 2
MaxPollTime == 1
MaxExitDelay == 6
MaxTimeout == 4
MaxCalls == 2
MaxParam == 2
MaxPool == 6
MaxPageTests == 3
MaxUses == 2
MaxBodyAdds == 2

\* ------------------------------------------------------ program constants
\* wait_for_server(server_url, timeout=30)
StartupTimeout == 30
\* time.sleep(1)
PollSleep == 1
\* process.wait(timeout=5)
WaitTimeout == 5
\* seed_users: num_users = 5 when the fixture has no parameter
DefaultCount == 5

VARIABLES
    \* ---- the run and the database
    run,          \* number of the pytest run
    preserve_db,     \* request.config.getoption("--preserve-db") of this run
    prevPreserve, \* the option of the previous run
    pc,           \* position of the run in the fixture lifecycle
    tests,        \* tests started in this run
    schema,       \* TRUE when the tables of Base.metadata exist
    db,           \* committed rows, per table
    initLog,      \* steps of session-scope initialize performed in this run
    initFailed,   \* a step of session-scope initialize raised
    \* ---- the handle of the current test (db_session)
    session,         \* "none" | "open" | "closed"
    pending,      \* objects added to the handle and not yet flushed
    tx,           \* rows as the handle's open transaction sees them
    poisoned,     \* a database error hit the handle and no rollback followed
    outcome,      \* "none" | "passed" | "raised": how the test body ended
    relIdx,       \* index into reversed(sorted_tables) of the release loop
    relLog,       \* what the release did, in order
    relErr,       \* the release itself raised
    nextId,       \* next unused row identifier
    openHandles,  \* handles of this run opened and not closed, by test number
    \* ---- observers
    committed,    \* rows committed by tests of this run
    prevCommitted,\* rows committed by tests of the previous run
    firstDb,      \* db when the first test of the run acquired its handle
    \* ---- the live-process fixture (fastapi_server)
    spc,          \* position in fastapi_server / wait_for_server
    process,         \* "unbound" | "running" | "exited"
    elapsed,      \* time.time() - start_time, in seconds
    lastPoll,     \* outcome of the latest requests.get
    got200,       \* some poll returned status 200
    wfs,          \* "none" | "True" | "False" | "raised": wait_for_server
    srvExc,       \* exception leaving the fixture, "none" when there is none
    yielded,      \* the fixture yielded to the tests
    sigs,         \* signals sent to the subprocess, in order
    aliveAfterWait, \* the subprocess was still running when process.wait ended
    \* ---- the call of wait_for_server
    timeout,      \* the timeout argument, in seconds
    direct,       \* TRUE when wait_for_server is called on its own
    polls,        \* requests.get calls started
    pollStart,    \* elapsed time at which the latest poll started
    \* ---- the test data fixtures (fake_user_data, test_user, seed_users)
    ufix,         \* the fixture being set up, "none" between two of them
    upc,          \* its position: "idle" | "loop" | "commit" | "returned" | "raised"
    calls,        \* fixtures set up so far in the run
    hasParam,     \* request has the attribute param
    param,        \* request.param
    num_users,    \* local num_users of seed_users
    users,        \* local users of seed_users: the users by their number
    callLog,      \* what the current fixture did, in order
    seenEmails,   \* values fake.unique has handed out for email
    seenNames,    \* values fake.unique has handed out for user_name
    made,         \* users built from create_fake_user, numbered 1..made
    prodEmails,   \* the emails of those users
    prodNames,    \* the usernames of those users
    uPending,     \* users added to the handle and not committed
    uCommitted,   \* users committed
    \* ---- the browser fixtures (browser_context, page)
    bpc,          \* position in browser_context / page
    browser,      \* "none" | "open" | "closed": the Chromium instance
    pageTests,    \* tests that asked for the page fixture so far
    context,      \* "none" | "open" | "closed": the context of this test
    page,         \* "none" | "open" | "closed": the page of this test
    pageOutcome,  \* "none" | "passed" | "raised": how the test body ended
    pageErr,      \* the page fixture itself raised
    leftContexts, \* tests whose context was left open at their end
    leftPages,    \* tests whose page was left open at their end
    \* ---- managed_db_session
    mpc,          \* position in managed_db_session
    mUses,        \* with-blocks entered so far
    mSession,     \* "none" | "open" | "closed"
    mPending,     \* objects the body added and did not flush
    mBody,        \* "none" | "ok" | the exception the body raised
    mSteps,       \* what the manager did after the body, in order
    mRaised,      \* "none" | the exception that reached the caller
    mHistory,     \* <<body, raised>> of the finished with-blocks
    \* ---- calculation schemas
    vpc,          \* "input" | "done"
    shape,        \* "create" | "update" | "response"
    data,         \* the keyword arguments handed to the schema class
    validated     \* [ok, model]: the outcome of the validation

dbVars == <<run, preserve_db, prevPreserve, pc, tests, schema, db, initLog,
            initFailed, session, pending, tx, poisoned, outcome, relIdx, relLog,
            relErr, nextId, openHandles, committed, prevCommitted, firstDb>>
srvVars == <<spc, process, elapsed, lastPoll, got200, wfs, srvExc, yielded,
             sigs, aliveAfterWait, timeout, direct, polls, pollStart>>
usrVars == <<ufix, upc, calls, hasParam, param, num_users, users, callLog,
             seenEmails, seenNames, made, prodEmails, prodNames, uPending,
             uCommitted>>
brVars == <<bpc, browser, pageTests, context, page, pageOutcome, pageErr,
            leftContexts, leftPages>>
mgVars == <<mpc, mUses, mSession, mPending, mBody, mSteps, mRaised, mHistory>>
scVars == <<vpc, shape, data, validated>>
vars == <<dbVars, srvVars, usrVars, brVars, mgVars, scVars>>
nonDbVars == <<srvVars, usrVars, brVars, mgVars, scVars>>
nonSrvVars == <<dbVars, usrVars, brVars, mgVars, scVars>>
nonUsrVars == <<dbVars, srvVars, brVars, mgVars, scVars>>
nonBrVars == <<dbVars, srvVars, usrVars, mgVars, scVars>>
nonMgVars == <<dbVars, srvVars, usrVars, brVars, scVars>>
nonScVars == <<dbVars, srvVars, usrVars, brVars, mgVars>>

\* ------------------------------------------------------------- the schema
\* Base.metadata.sorted_tables: parents first (calculations.user_id -> users)
sorted_tables == <<"users", "calculations">>
TableNames == {sorted_tables[i] : i \in 1..Len(sorted_tables)}
Ids == 1..MaxRows
NoRows == [t \in TableNames |-> {}]
Rows(d) == UNION {d[t] : t \in TableNames}

Reverse(s) == [i \in 1..Len(s) |-> s[Len(s) + 1 - i]]

\* foreign keys of the schema, as <<child, parent>>: calculations.user_id
ForeignKeys == {<<"calculations", "users">>}

\* the loop runs over sorted_tables as it is, parents first
ReleaseOrder_forward == sorted_tables

\* reversed(Base.metadata.sorted_tables)
ReleaseOrder == Reverse(sorted_tables)

\* the truncation no longer looks at --preserve-db
ShouldTruncate_always(p) == TRUE

\* if not preserve_db: (db_session)
ShouldTruncate(p) == ~p

\* the finalize no longer looks at --preserve-db
ShouldDrop_always(p) == TRUE

\* if preserve_db: skip, else drop_db() (setup_test_database)
ShouldDrop(p) == ~p

\* session.commit(): flush the pending objects, then commit the transaction
Flushed(view, pend) == [t \in TableNames |-> view[t] \cup pend[t]]

\* -------------------------------------------------------------------- Init
InitDb ==
    /\ run = 1
    /\ preserve_db \in BOOLEAN
    /\ prevPreserve = FALSE
    /\ pc = "UNINITIALIZED"
    /\ tests = 0
    /\ schema \in BOOLEAN
    /\ db = NoRows
    /\ initLog = <<>>
    /\ initFailed = FALSE
    /\ session = "none"
    /\ pending = NoRows
    /\ tx = NoRows
    /\ poisoned = FALSE
    /\ outcome = "none"
    /\ relIdx = 1
    /\ relLog = <<>>
    /\ relErr = FALSE
    /\ nextId = 1
    /\ openHandles = {}
    /\ committed = {}
    /\ prevCommitted = {}
    /\ firstDb = NoRows

\* the database fixtures at rest, for the specifications of other fixtures
IdleDb == InitDb /\ ~preserve_db /\ ~schema

InitSrv ==
    /\ spc = "start"
    /\ process = "unbound"
    /\ elapsed = 0
    /\ lastPoll = "none"
    /\ got200 = FALSE
    /\ wfs = "none"
    /\ srvExc = "none"
    /\ yielded = FALSE
    /\ sigs = <<>>
    /\ aliveAfterWait = FALSE
    /\ timeout = StartupTimeout
    /\ direct = FALSE
    /\ polls = 0
    /\ pollStart = 0

\* wait_for_server(url, timeout) called on its own: start_time = time.time()
InitWait ==
    /\ spc = "check"
    /\ process = "unbound"
    /\ elapsed = 0
    /\ lastPoll = "none"
    /\ got200 = FALSE
    /\ wfs = "none"
    /\ srvExc = "none"
    /\ yielded = FALSE
    /\ sigs = <<>>
    /\ aliveAfterWait = FALSE
    /\ timeout \in -1..MaxTimeout
    /\ direct = TRUE
    /\ polls = 0
    /\ pollStart = 0

\* fake = Faker(); no fixture has run
InitUsr ==
    /\ ufix = "none"
    /\ upc = "idle"
    /\ calls = 0
    /\ hasParam = FALSE
    /\ param = 0
    /\ num_users = 0
    /\ users = <<>>
    /\ callLog = <<>>
    /\ seenEmails = {}
    /\ seenNames = {}
    /\ made = 0
    /\ prodEmails = {}
    /\ prodNames = {}
    /\ uPending = {}
    /\ uCommitted = {}

\* no browser launched
InitBr ==
    /\ bpc = "start"
    /\ browser = "none"
    /\ pageTests = 0
    /\ context = "none"
    /\ page = "none"
    /\ pageOutcome = "none"
    /\ pageErr = FALSE
    /\ leftContexts = {}
    /\ leftPages = {}

\* no with-block entered
InitMg ==
    /\ mpc = "idle"
    /\ mUses = 0
    /\ mSession = "none"
    /\ mPending = 0
    /\ mBody = "none"
    /\ mSteps = <<>>
    /\ mRaised = "none"
    /\ mHistory = <<>>

\* ---- values a keyword argument can have
V(k, w, n, sc) == [kind |-> k, word |-> w, num |-> n, scale |-> sc]
Missing == V("missing", "", 0, 0)
None == V("none", "", 0, 0)
StrVal(w) == V("str", w, 0, 0)
IntVal(n) == V("int", "", n, 0)
\* the float n / 10^sc
FloatVal(n, sc) == V("float", "", n, sc)
Uuid == V("uuid", "", 0, 0)
Datetime == V("datetime", "", 0, 0)
FloatList == V("list", "", 0, 0)

\* no schema class is being called
NoModel == [ok |-> FALSE, model |-> <<>>]

InitSc ==
    /\ vpc = "done"
    /\ shape = "create"
    /\ data = [f \in {} |-> Missing]
    /\ validated = NoModel

Init == InitDb /\ InitSrv /\ InitUsr /\ InitBr /\ InitMg /\ InitSc

\* a step of the setup that raises is swallowed and the setup goes on
AfterInitStep_swallow(ok, next) == next

\* ------------------------------------------- session-scope initialize
\* A step of the setup that raises ends the setup: pytest reports the error
\* to every test and runs none of them.
AfterInitStep(ok, next) == IF ok THEN next ELSE "ABORTED"

\* init_db() of app.database_init: inserts the baseline rows
init_db(d, rows) == [d EXCEPT !["users"] = @ \cup rows]

\* drop_db() of app.database_init: drops all tables
drop_db(d) == NoRows

\* Base.metadata.drop_all(bind=test_engine)
InitDropStep ==
    /\ pc = "UNINITIALIZED"
    /\ \E ok \in BOOLEAN :
        /\ initLog' = Append(initLog, "drop_all")
        /\ initFailed' = ~ok
        /\ schema' = IF ok THEN FALSE ELSE schema
        /\ db' = IF ok THEN NoRows ELSE db
        /\ pc' = AfterInitStep(ok, "INIT_DROPPED")
    /\ UNCHANGED <<openHandles, run, preserve_db, prevPreserve, tests, session, pending, tx,
                   poisoned, outcome, relIdx, relLog, relErr, nextId,
                   committed, prevCommitted, firstDb>>
    /\ UNCHANGED nonDbVars

\* Base.metadata.create_all(bind=test_engine)
InitCreateStep ==
    /\ pc = "INIT_DROPPED"
    /\ \E ok \in BOOLEAN :
        /\ initLog' = Append(initLog, "create_all")
        /\ initFailed' = (initFailed \/ ~ok)
        /\ schema' = IF ok THEN TRUE ELSE schema
        /\ pc' = AfterInitStep(ok, "INIT_CREATED")
    /\ UNCHANGED <<openHandles, run, preserve_db, prevPreserve, tests, db, session, pending, tx,
                   poisoned, outcome, relIdx, relLog, relErr, nextId,
                   committed, prevCommitted, firstDb>>
    /\ UNCHANGED nonDbVars

\* init_db(), then the yield of setup_test_database
InitSeedStep ==
    /\ pc = "INIT_CREATED"
    /\ \E ok \in BOOLEAN, seed \in BOOLEAN :
        LET rows == IF ok /\ seed /\ nextId <= MaxRows THEN {nextId} ELSE {}
        IN  /\ initLog' = Append(initLog, "init_db")
            /\ initFailed' = (initFailed \/ ~ok)
            /\ db' = init_db(db, rows)
            /\ nextId' = nextId + Cardinality(rows)
            /\ pc' = AfterInitStep(ok, "SCHEMA_READY")
    /\ UNCHANGED <<openHandles, run, preserve_db, prevPreserve, tests, schema, session, pending,
                   tx, poisoned, outcome, relIdx, relLog, relErr,
                   committed, prevCommitted, firstDb>>
    /\ UNCHANGED nonDbVars

\* ------------------------------------------------ per-test acquire
\* session = TestingSessionLocal(); yield session
TestAcquire ==
    /\ pc \in {"SCHEMA_READY", "TEST_DONE"}
    /\ tests < MaxTests
    /\ tests' = tests + 1
    /\ session' = "open"
    /\ openHandles' = openHandles \cup {tests + 1}
    /\ pending' = NoRows
    /\ tx' = db
    /\ poisoned' = FALSE
    /\ outcome' = "none"
    /\ relIdx' = 1
    /\ relLog' = <<>>
    /\ relErr' = FALSE
    /\ firstDb' = IF tests = 0 THEN db ELSE firstDb
    /\ pc' = "SESSION_OPEN"
    /\ UNCHANGED <<run, preserve_db, prevPreserve, schema, db, initLog,
                   initFailed, nextId, committed, prevCommitted>>
    /\ UNCHANGED nonDbVars

\* ------------------------------------------------ the test's use of it
\* db_session.add(user)
TestAdd(t) ==
    /\ pc = "SESSION_OPEN"
    /\ ~poisoned
    /\ nextId <= MaxRows
    /\ pending' = [pending EXCEPT ![t] = @ \cup {nextId}]
    /\ nextId' = nextId + 1
    /\ UNCHANGED <<openHandles, run, preserve_db, prevPreserve, pc, tests, schema, db,
                   initLog, initFailed, session, tx, poisoned, outcome, relIdx,
                   relLog, relErr, committed, prevCommitted, firstDb>>
    /\ UNCHANGED nonDbVars

\* db_session.commit(): the flush may raise a database error (a constraint
\* is violated), which leaves the handle demanding a rollback
TestCommit ==
    /\ pc = "SESSION_OPEN"
    /\ ~poisoned
    /\ \E ok \in BOOLEAN :
        /\ (~ok) => pending # NoRows
        /\ db' = IF ok THEN Flushed(tx, pending) ELSE db
        /\ tx' = IF ok THEN Flushed(tx, pending) ELSE db
        /\ committed' = IF ok THEN committed \cup Rows(pending) ELSE committed
        /\ poisoned' = ~ok
        /\ pending' = NoRows
    /\ UNCHANGED <<openHandles, run, preserve_db, prevPreserve, pc, tests, schema, initLog,
                   initFailed, session, outcome, relIdx, relLog, relErr, nextId,
                   prevCommitted, firstDb>>
    /\ UNCHANGED nonDbVars

\* the test itself calls db_session.rollback() after a database error
TestRollback ==
    /\ pc = "SESSION_OPEN"
    /\ poisoned
    /\ poisoned' = FALSE
    /\ pending' = NoRows
    /\ tx' = db
    /\ UNCHANGED <<openHandles, run, preserve_db, prevPreserve, pc, tests, schema, db,
                   initLog, initFailed, session, outcome, relIdx, relLog, relErr,
                   nextId, committed, prevCommitted, firstDb>>
    /\ UNCHANGED nonDbVars

\* the test body ends (passes or raises): the finally block starts
TestEnd(o) ==
    /\ pc = "SESSION_OPEN"
    /\ outcome' = o
    /\ relIdx' = 1
    /\ pc' = IF ShouldTruncate(preserve_db) THEN "rel_delete" ELSE "rel_close"
    /\ UNCHANGED <<openHandles, run, preserve_db, prevPreserve, tests, schema, db, initLog,
                   initFailed, session, pending, tx, poisoned, relLog, relErr,
                   nextId, committed, prevCommitted, firstDb>>
    /\ UNCHANGED nonDbVars

\* ------------------------------------------------ per-test release
\* session.execute(table.delete()) for the next table of the loop; on a
\* handle that demands a rollback the statement raises, and the exception
\* leaves the finally block: neither commit nor close is reached
ReleaseDelete ==
    /\ pc = "rel_delete"
    /\ relIdx <= Len(ReleaseOrder)
    /\ LET t == ReleaseOrder[relIdx]
       IN  IF poisoned
           THEN /\ relErr' = TRUE
                /\ pc' = "TEST_DONE"
                /\ UNCHANGED <<tx, relIdx, relLog>>
           ELSE /\ tx' = [tx EXCEPT ![t] = {}]
                /\ relLog' = Append(relLog, t)
                /\ relIdx' = relIdx + 1
                /\ pc' = IF relIdx = Len(ReleaseOrder)
                         THEN "rel_commit" ELSE "rel_delete"
                /\ UNCHANGED relErr
    /\ UNCHANGED <<openHandles, run, preserve_db, prevPreserve, tests, schema, db, initLog,
                   initFailed, session, pending, poisoned, outcome, nextId,
                   committed, prevCommitted, firstDb>>
    /\ UNCHANGED nonDbVars

\* session.commit() of the release: flushes what the test left pending, then
\* commits the deletes and the flushed rows; a failing flush raises
ReleaseCommit ==
    /\ pc = "rel_commit"
    /\ \E ok \in BOOLEAN :
        /\ (~ok) => pending # NoRows
        /\ db' = IF ok THEN Flushed(tx, pending) ELSE db
        /\ tx' = IF ok THEN Flushed(tx, pending) ELSE db
        /\ poisoned' = ~ok
        /\ relErr' = ~ok
        /\ relLog' = IF ok THEN Append(relLog, "commit") ELSE relLog
        /\ pc' = IF ok THEN "rel_close" ELSE "TEST_DONE"
        /\ pending' = NoRows
    /\ UNCHANGED <<openHandles, run, preserve_db, prevPreserve, tests, schema, initLog,
                   initFailed, session, outcome, relIdx, nextId, committed,
                   prevCommitted, firstDb>>
    /\ UNCHANGED nonDbVars

\* session.close()
ReleaseClose ==
    /\ pc = "rel_close"
    /\ session' = "closed"
    /\ openHandles' = openHandles \ {tests}
    /\ pending' = NoRows
    /\ tx' = db
    /\ relLog' = Append(relLog, "close")
    /\ pc' = "TEST_DONE"
    /\ UNCHANGED <<run, preserve_db, prevPreserve, tests, schema, db, initLog,
                   initFailed, poisoned, outcome, relIdx, relErr, nextId,
                   committed, prevCommitted, firstDb>>
    /\ UNCHANGED nonDbVars

\* --------------------------------------------- session-scope finalize
\* the code after the yield of setup_test_database
Finalize ==
    /\ pc = "TEST_DONE"
    /\ IF ShouldDrop(preserve_db)
       THEN /\ db' = drop_db(db)
            /\ schema' = FALSE
            /\ pc' = "SCHEMA_DROPPED"
       ELSE /\ pc' = "SCHEMA_PRESERVED"
            /\ UNCHANGED <<db, schema>>
    /\ UNCHANGED <<openHandles, run, preserve_db, prevPreserve, tests, initLog, initFailed,
                   session, pending, tx, poisoned, outcome, relIdx, relLog,
                   relErr, nextId, committed, prevCommitted, firstDb>>
    /\ UNCHANGED nonDbVars

\* pytest is started again, with or without --preserve-db
NewRun ==
    /\ pc \in {"SCHEMA_DROPPED", "SCHEMA_PRESERVED", "ABORTED"}
    /\ run < MaxRuns
    /\ run' = run + 1
    /\ preserve_db' \in BOOLEAN
    /\ prevPreserve' = preserve_db
    /\ pc' = "UNINITIALIZED"
    /\ tests' = 0
    /\ initLog' = <<>>
    /\ initFailed' = FALSE
    /\ session' = "none"
    /\ openHandles' = {}
    /\ pending' = NoRows
    /\ tx' = NoRows
    /\ poisoned' = FALSE
    /\ outcome' = "none"
    /\ relIdx' = 1
    /\ relLog' = <<>>
    /\ relErr' = FALSE
    /\ prevCommitted' = committed
    /\ committed' = {}
    /\ firstDb' = NoRows
    /\ UNCHANGED <<schema, db, nextId>>
    /\ UNCHANGED nonDbVars

Next ==
    \/ InitDropStep
    \/ InitCreateStep
    \/ InitSeedStep
    \/ TestAcquire
    \/ \E t \in TableNames : TestAdd(t)
    \/ TestCommit
    \/ TestRollback
    \/ \E o \in {"passed", "raised"} : TestEnd(o)
    \/ ReleaseDelete
    \/ ReleaseCommit
    \/ ReleaseClose
    \/ Finalize
    \/ NewRun

Spec == Init /\ [][Next]_vars

\* ------------------------------------------------- wait_for_server
PollOutcomes == {"200", "non200", "ConnectionError", "OtherError"}

\* a bare except: every exception of a poll is ignored
Ignored_all(out) == out \in {"ConnectionError", "OtherError"}

\* except requests.exceptions.ConnectionError: pass
Ignored(out) == out = "ConnectionError"

\* an outcome of requests.get that is an exception
IsException(out) == out \in {"ConnectionError", "OtherError"}

\* the result of wait_for_server is not looked at
RaisesStartupError_never(ready) == FALSE

\* if not wait_for_server(...): raise ServerStartupError
RaisesStartupError(ready) == ~ready

\* the timeout of process.wait is swallowed without a kill
KillOnTimeout_never(timedOut) == FALSE

\* except subprocess.TimeoutExpired: process.kill()
KillOnTimeout(timedOut) == timedOut

\* the loop may start a poll at elapsed = timeout
TimeRemains_inclusive(e, t) == e <= t

\* while (time.time() - start_time) < timeout
TimeRemains(e, t) == e < t

\* what fastapi_server does with the result of wait_for_server
FixtureAfterWait(ready) ==
    IF direct
    THEN /\ spc' = "returned"
         /\ UNCHANGED <<srvExc, yielded>>
    ELSE IF RaisesStartupError(ready)
    THEN /\ srvExc' = "ServerStartupError"
         /\ spc' = "teardown"
         /\ UNCHANGED yielded
    ELSE /\ yielded' = TRUE
         /\ spc' = "yielded"
         /\ UNCHANGED srvExc

\* subprocess.Popen([...]); then start_time = time.time()
SrvSpawn ==
    /\ spc = "start"
    /\ \E ok \in BOOLEAN :
        IF ok
        THEN /\ process' = "running"
             /\ spc' = "check"
             /\ UNCHANGED srvExc
        ELSE /\ srvExc' = "SpawnError"
             /\ spc' = "teardown"
             /\ UNCHANGED process
    /\ elapsed' = 0
    /\ UNCHANGED <<lastPoll, got200, wfs, yielded, sigs, aliveAfterWait>>
    /\ UNCHANGED <<polls, pollStart>>
    /\ UNCHANGED <<timeout, direct>>
    /\ UNCHANGED nonSrvVars

\* one pass of the loop body: requests.get(url), which takes d seconds
SrvPoll ==
    /\ spc = "check"
    /\ TimeRemains(elapsed, timeout)
    /\ polls' = polls + 1
    /\ pollStart' = elapsed
    /\ \E out \in PollOutcomes, d \in 0..MaxPollTime :
        /\ elapsed' = elapsed + d
        /\ lastPoll' = out
        /\ IF out = "200"
           THEN /\ got200' = TRUE
                /\ wfs' = "True"
                /\ FixtureAfterWait(TRUE)
           ELSE IF IsException(out) /\ ~Ignored(out)
           THEN /\ wfs' = "raised"
                /\ srvExc' = out
                /\ spc' = IF direct THEN "raised" ELSE "teardown"
                /\ UNCHANGED <<got200, yielded>>
           ELSE /\ spc' = "sleep"
                /\ UNCHANGED <<got200, wfs, srvExc, yielded>>
    /\ UNCHANGED <<process, sigs, aliveAfterWait>>
    /\ UNCHANGED <<timeout, direct>>
    /\ UNCHANGED nonSrvVars

\* time.sleep(1)
SrvSleep ==
    /\ spc = "sleep"
    /\ elapsed' = elapsed + PollSleep
    /\ spc' = "check"
    /\ UNCHANGED <<process, lastPoll, got200, wfs, srvExc, yielded, sigs,
                   aliveAfterWait>>
    /\ UNCHANGED <<polls, pollStart>>
    /\ UNCHANGED <<timeout, direct>>
    /\ UNCHANGED nonSrvVars

\* the loop condition fails: return False
SrvDeadline ==
    /\ spc = "check"
    /\ ~TimeRemains(elapsed, timeout)
    /\ wfs' = "False"
    /\ FixtureAfterWait(FALSE)
    /\ UNCHANGED <<process, elapsed, lastPoll, got200, sigs, aliveAfterWait>>
    /\ UNCHANGED <<polls, pollStart>>
    /\ UNCHANGED <<timeout, direct>>
    /\ UNCHANGED nonSrvVars

\* the subprocess exits on its own
ProcExit ==
    /\ process = "running"
    /\ spc \in {"check", "sleep", "yielded"}
    /\ process' = "exited"
    /\ UNCHANGED <<spc, elapsed, lastPoll, got200, wfs, srvExc, yielded,
                   sigs, aliveAfterWait>>
    /\ UNCHANGED <<polls, pollStart>>
    /\ UNCHANGED <<timeout, direct>>
    /\ UNCHANGED nonSrvVars

\* the tests that use the server are over: pytest resumes the generator
SrvResume ==
    /\ spc = "yielded"
    /\ spc' = "teardown"
    /\ UNCHANGED <<process, elapsed, lastPoll, got200, wfs, srvExc, yielded,
                   sigs, aliveAfterWait>>
    /\ UNCHANGED <<polls, pollStart>>
    /\ UNCHANGED <<timeout, direct>>
    /\ UNCHANGED nonSrvVars

\* finally: process.terminate(); with no subprocess the name is unbound
SrvTerminate ==
    /\ spc = "teardown"
    /\ IF process = "unbound"
       THEN /\ srvExc' = "UnboundLocalError"
            /\ spc' = "done"
            /\ UNCHANGED sigs
       ELSE /\ sigs' = Append(sigs, "terminate")
            /\ spc' = "waiting"
            /\ UNCHANGED srvExc
    /\ UNCHANGED <<process, elapsed, lastPoll, got200, wfs, yielded,
                   aliveAfterWait>>
    /\ UNCHANGED <<polls, pollStart>>
    /\ UNCHANGED <<timeout, direct>>
    /\ UNCHANGED nonSrvVars

\* process.wait(timeout=5): the subprocess needs delay seconds to exit
SrvWait ==
    /\ spc = "waiting"
    /\ \E delay \in 0..MaxExitDelay :
        LET inTime == process = "exited" \/ delay < WaitTimeout
        IN  /\ aliveAfterWait' = ~inTime
            /\ IF KillOnTimeout(~inTime)
               THEN /\ sigs' = Append(sigs, "kill")
                    /\ process' = "exited"
               ELSE /\ process' = IF inTime THEN "exited" ELSE process
                    /\ UNCHANGED sigs
    /\ spc' = "done"
    /\ UNCHANGED <<elapsed, lastPoll, got200, wfs, srvExc, yielded>>
    /\ UNCHANGED <<polls, pollStart>>
    /\ UNCHANGED <<timeout, direct>>
    /\ UNCHANGED nonSrvVars

NextServer ==
    \/ SrvSpawn
    \/ SrvPoll
    \/ SrvSleep
    \/ SrvDeadline
    \/ ProcExit
    \/ SrvResume
    \/ SrvTerminate
    \/ SrvWait

SpecServer == Init /\ [][NextServer]_vars

\* wait_for_server on its own, for any timeout
NextWait ==
    \/ SrvPoll
    \/ SrvSleep
    \/ SrvDeadline

InitWaitCall == IdleDb /\ InitWait /\ InitUsr /\ InitBr /\ InitMg /\ InitSc

SpecWait == InitWaitCall /\ [][NextWait]_vars

\* ------------------------------------------------- test data fixtures
\* the values the generator can produce for one field
Pool == 1..MaxPool

\* fake.email(): any value, drawn before or not
PlainDraws(seen) == Pool

\* fake.unique.<field>(): a value is redrawn until it is one not handed out
\* before; with none left the proxy raises UniquenessException
UniqueDraws(seen) == Pool \ seen

\* the email of create_fake_user comes from fake.email()
EmailDraws_plain(seen) == PlainDraws(seen)

\* "email": fake.unique.email()
EmailDraws(seen) == UniqueDraws(seen)

\* "username": fake.unique.user_name()
NameDraws(seen) == UniqueDraws(seen)

\* create_fake_user() can return: neither unique field is exhausted
CanCreate == EmailDraws(seenEmails) # {} /\ NameDraws(seenNames) # {}

\* create_fake_user() returning the attributes of user number made + 1
\* (first_name, last_name and password are plain draws that nothing reads)
create_fake_user ==
    \E em \in EmailDraws(seenEmails), un \in NameDraws(seenNames) :
        /\ seenEmails' = seenEmails \cup {em}
        /\ seenNames' = seenNames \cup {un}
        /\ prodEmails' = prodEmails \cup {em}
        /\ prodNames' = prodNames \cup {un}
        /\ made' = made + 1

\* create_fake_user() raising UniquenessException: a unique field has no
\* value left; the email is drawn first
create_fake_user_raises ==
    /\ ~CanCreate
    /\ \/ /\ EmailDraws(seenEmails) = {}
          /\ UNCHANGED seenEmails
       \/ /\ EmailDraws(seenEmails) # {}
          /\ \E em \in EmailDraws(seenEmails) : seenEmails' = seenEmails \cup {em}
    /\ UNCHANGED <<seenNames, prodEmails, prodNames, made>>

\* pytest sets up the next fixture of the run
CanCall == upc \in {"idle", "returned", "raised"} /\ calls < MaxCalls

\* fake_user_data: return create_fake_user()
FakeUserData ==
    /\ CanCall
    /\ ufix' = "fake_user_data"
    /\ calls' = calls + 1
    /\ \/ /\ create_fake_user
          /\ callLog' = <<"create">>
          /\ upc' = "returned"
       \/ /\ create_fake_user_raises
          /\ callLog' = <<>>
          /\ upc' = "raised"
    /\ UNCHANGED <<hasParam, param, num_users, users, uPending, uCommitted>>
    /\ UNCHANGED nonUsrVars

\* test_user: create_fake_user(); User(**user_data); db_session.add(user)
TestUserAdd ==
    /\ CanCall
    /\ ufix' = "test_user"
    /\ calls' = calls + 1
    /\ \/ /\ create_fake_user
          /\ callLog' = <<"create", "add">>
          /\ uPending' = uPending \cup {made + 1}
          /\ upc' = "commit"
       \/ /\ create_fake_user_raises
          /\ callLog' = <<>>
          /\ upc' = "raised"
          /\ UNCHANGED uPending
    /\ UNCHANGED <<hasParam, param, num_users, users, uCommitted>>
    /\ UNCHANGED nonUsrVars

\* db_session.commit() of test_user or seed_users (and, in test_user,
\* db_session.refresh(user); return user); a failing flush raises and the
\* pending users are gone with the transaction
UserCommit ==
    /\ upc = "commit"
    /\ \E ok \in BOOLEAN :
        /\ (~ok) => uPending # {}
        /\ uCommitted' = IF ok THEN uCommitted \cup uPending ELSE uCommitted
        /\ callLog' = IF ok THEN Append(callLog, "commit") ELSE callLog
        /\ upc' = IF ok THEN "returned" ELSE "raised"
    /\ uPending' = {}
    /\ UNCHANGED <<ufix, calls, hasParam, param, num_users, users, seenEmails,
                   seenNames, made, prodEmails, prodNames>>
    /\ UNCHANGED nonUsrVars

\* the loop of seed_users made one pass too many
SeedLoopContinues_extra(done, n) == done < n + 1

\* for _ in range(num_users)
SeedLoopContinues(done, n) == done < n

\* try: num_users = request.param / except AttributeError: num_users = 5
NumUsers(has, p) == IF has THEN p ELSE DefaultCount

\* seed_users up to users = []
SeedStart ==
    /\ CanCall
    /\ ufix' = "seed_users"
    /\ calls' = calls + 1
    /\ \E has \in BOOLEAN, p \in 0..MaxParam :
        /\ has \/ p = 0
        /\ hasParam' = has
        /\ param' = p
        /\ num_users' = NumUsers(has, p)
    /\ users' = <<>>
    /\ callLog' = <<>>
    /\ upc' = "loop"
    /\ UNCHANGED <<seenEmails, seenNames, made, prodEmails, prodNames,
                   uPending, uCommitted>>
    /\ UNCHANGED nonUsrVars

\* one pass of the loop of seed_users, or its end
SeedLoop ==
    /\ upc = "loop"
    /\ IF SeedLoopContinues(Len(users), num_users)
       THEN \/ /\ create_fake_user
               /\ users' = Append(users, made + 1)
               /\ uPending' = uPending \cup {made + 1}
               /\ callLog' = callLog \o <<"create", "add">>
               /\ UNCHANGED upc
            \/ /\ create_fake_user_raises
               /\ upc' = "raised"
               /\ UNCHANGED <<users, uPending, callLog>>
       ELSE /\ upc' = "commit"
            /\ UNCHANGED <<users, uPending, callLog, seenEmails, seenNames,
                           made, prodEmails, prodNames>>
    /\ UNCHANGED <<ufix, calls, hasParam, param, num_users, uCommitted>>
    /\ UNCHANGED nonUsrVars

NextUsers ==
    \/ FakeUserData
    \/ TestUserAdd
    \/ UserCommit
    \/ SeedStart
    \/ SeedLoop

InitUsers == IdleDb /\ InitSrv /\ InitUsr /\ InitBr /\ InitMg /\ InitSc

SpecUsers == InitUsers /\ [][NextUsers]_vars

\* ---------------------------------------------------- browser fixtures
\* browser_context: playwright.chromium.launch(...); yield browser
BrowserLaunch ==
    /\ bpc = "start"
    /\ \E ok \in BOOLEAN :
        /\ browser' = IF ok THEN "open" ELSE browser
        /\ bpc' = IF ok THEN "ready" ELSE "done"
    /\ UNCHANGED <<pageTests, context, page, pageOutcome, pageErr,
                   leftContexts, leftPages>>
    /\ UNCHANGED nonBrVars

\* page: context = browser_context.new_context(...)
PageNewContext ==
    /\ bpc = "ready"
    /\ pageTests < MaxPageTests
    /\ pageTests' = pageTests + 1
    /\ page' = "none"
    /\ pageOutcome' = "none"
    /\ \E ok \in BOOLEAN :
        /\ context' = IF ok THEN "open" ELSE "none"
        /\ pageErr' = ~ok
        /\ bpc' = IF ok THEN "new_page" ELSE "ready"
    /\ UNCHANGED <<browser, leftContexts, leftPages>>
    /\ UNCHANGED nonBrVars

\* page = context.new_page(): it stands before the try, so when it raises
\* the fixture ends there and nothing closes the context
PageNewPage ==
    /\ bpc = "new_page"
    /\ \E ok \in BOOLEAN :
        IF ok
        THEN /\ page' = "open"
             /\ bpc' = "in_test"
             /\ UNCHANGED <<pageErr, leftContexts>>
        ELSE /\ pageErr' = TRUE
             /\ leftContexts' = leftContexts \cup {pageTests}
             /\ bpc' = "ready"
             /\ UNCHANGED page
    /\ UNCHANGED <<browser, pageTests, context, pageOutcome, leftPages>>
    /\ UNCHANGED nonBrVars

\* the test body ends: the finally block of page starts
PageTestEnd(o) ==
    /\ bpc = "in_test"
    /\ pageOutcome' = o
    /\ bpc' = "close_page"
    /\ UNCHANGED <<browser, pageTests, context, page, pageErr, leftContexts,
                   leftPages>>
    /\ UNCHANGED nonBrVars

\* page.close(): when it raises, the exception leaves the finally block and
\* context.close() is not reached
PageClose ==
    /\ bpc = "close_page"
    /\ \E ok \in BOOLEAN :
        IF ok
        THEN /\ page' = "closed"
             /\ bpc' = "close_context"
             /\ UNCHANGED <<pageErr, leftContexts, leftPages>>
        ELSE /\ pageErr' = TRUE
             /\ leftContexts' = leftContexts \cup {pageTests}
             /\ leftPages' = leftPages \cup {pageTests}
             /\ bpc' = "ready"
             /\ UNCHANGED page
    /\ UNCHANGED <<browser, pageTests, context, pageOutcome>>
    /\ UNCHANGED nonBrVars

\* context.close()
ContextClose ==
    /\ bpc = "close_context"
    /\ \E ok \in BOOLEAN :
        /\ context' = IF ok THEN "closed" ELSE context
        /\ pageErr' = ~ok
        /\ leftContexts' = IF ok THEN leftContexts
                           ELSE leftContexts \cup {pageTests}
    /\ bpc' = "ready"
    /\ UNCHANGED <<browser, pageTests, page, pageOutcome, leftPages>>
    /\ UNCHANGED nonBrVars

\* browser_context teardown: browser.close(), which closes every context
\* and page still open in the browser
BrowserClose ==
    /\ bpc = "ready"
    /\ browser' = "closed"
    /\ context' = IF context = "open" THEN "closed" ELSE context
    /\ page' = IF page = "open" THEN "closed" ELSE page
    /\ leftContexts' = {}
    /\ leftPages' = {}
    /\ bpc' = "done"
    /\ UNCHANGED <<pageTests, pageOutcome, pageErr>>
    /\ UNCHANGED nonBrVars

NextBrowser ==
    \/ BrowserLaunch
    \/ PageNewContext
    \/ PageNewPage
    \/ \E o \in {"passed", "raised"} : PageTestEnd(o)
    \/ PageClose
    \/ ContextClose
    \/ BrowserClose

InitBrowser == IdleDb /\ InitSrv /\ InitUsr /\ InitBr /\ InitMg /\ InitSc

SpecBrowser == InitBrowser /\ [][NextBrowser]_vars

\* --------------------------------------------------- managed_db_session
\* exceptions a with-body can raise; the first two are SQLAlchemyError
DbErrors == {"IntegrityError", "OperationalError"}
OtherErrors == {"ValueError"}
BodyOutcomes == {"ok"} \cup DbErrors \cup OtherErrors

\* except SQLAlchemyError as e
Caught_any(o) == o # "ok"
Caught(o) == o \in DbErrors

\* session = TestingSessionLocal(); yield session
ManagedEnter ==
    /\ mpc \in {"idle", "exited"}
    /\ mUses < MaxUses
    /\ mUses' = mUses + 1
    /\ mSession' = "open"
    /\ mPending' = 0
    /\ mBody' = "none"
    /\ mSteps' = <<>>
    /\ mRaised' = "none"
    /\ mpc' = "body"
    /\ UNCHANGED mHistory
    /\ UNCHANGED nonMgVars

\* the body uses the session it was handed
ManagedBodyAdd ==
    /\ mpc = "body"
    /\ mPending < MaxBodyAdds
    /\ mPending' = mPending + 1
    /\ UNCHANGED <<mpc, mUses, mSession, mBody, mSteps, mRaised, mHistory>>
    /\ UNCHANGED nonMgVars

\* the body ends; control returns to the generator at the yield
ManagedBodyEnd(o) ==
    /\ mpc = "body"
    /\ mBody' = o
    /\ mpc' = IF Caught(o) THEN "log" ELSE "close"
    /\ UNCHANGED <<mUses, mSession, mPending, mSteps, mRaised, mHistory>>
    /\ UNCHANGED nonMgVars

\* logger.error(...)
ManagedLog ==
    /\ mpc = "log"
    /\ mSteps' = Append(mSteps, "log")
    /\ mpc' = "rollback"
    /\ UNCHANGED <<mUses, mSession, mPending, mBody, mRaised, mHistory>>
    /\ UNCHANGED nonMgVars

\* session.rollback(); raise
ManagedRollback ==
    /\ mpc = "rollback"
    /\ mSteps' = Append(mSteps, "rollback")
    /\ mPending' = 0
    /\ mpc' = "close"
    /\ UNCHANGED <<mUses, mSession, mBody, mRaised, mHistory>>
    /\ UNCHANGED nonMgVars

\* finally: session.close(); then the pending exception, if any, goes on
\* to the caller
ManagedClose ==
    /\ mpc = "close"
    /\ mSteps' = Append(mSteps, "close")
    /\ mSession' = "closed"
    /\ mPending' = 0
    /\ mRaised' = IF mBody = "ok" THEN "none" ELSE mBody
    /\ mHistory' = Append(mHistory, <<mBody, mRaised'>>)
    /\ mpc' = "exited"
    /\ UNCHANGED <<mUses, mBody>>
    /\ UNCHANGED nonMgVars

NextManaged ==
    \/ ManagedEnter
    \/ ManagedBodyAdd
    \/ \E o \in BodyOutcomes : ManagedBodyEnd(o)
    \/ ManagedLog
    \/ ManagedRollback
    \/ ManagedClose

InitManaged == IdleDb /\ InitSrv /\ InitUsr /\ InitBr /\ InitMg /\ InitSc

SpecManaged == InitManaged /\ [][NextManaged]_vars

\* -------------------------------------------------- calculation schemas
\* type: Literal['addition', 'subtraction', 'multiplication', 'division']
TypeLiteral_wide ==
    {"addition", "subtraction", "multiplication", "division", "modulus"}
TypeLiteral == {"addition", "subtraction", "multiplication", "division"}

\* the characters of the strings the inputs below carry
Chars(w) ==
    CASE w = "3.5" -> <<"3", ".", "5">>
      [] w = "-2"  -> <<"-", "2">>
      [] w = "abc" -> <<"a", "b", "c">>
      [] OTHER     -> <<>>

Digits == <<"0", "1", "2", "3", "4", "5", "6", "7", "8", "9">>
IsDigit(c) == \E d \in 1..10 : Digits[d] = c
DigitVal(c) == (CHOOSE d \in 1..10 : Digits[d] = c) - 1

RECURSIVE DigitsVal(_)
DigitsVal(cs) ==
    IF cs = <<>> THEN 0
    ELSE 10 * DigitsVal(SubSeq(cs, 1, Len(cs) - 1)) + DigitVal(cs[Len(cs)])

Unsigned(cs) == IF cs # <<>> /\ cs[1] \in {"-", "+"} THEN Tail(cs) ELSE cs
Sign(cs) == IF cs # <<>> /\ cs[1] = "-" THEN -1 ELSE 1
Dots(cs) == {i \in 1..Len(cs) : cs[i] = "."}
NoDots(cs) == SelectSeq(cs, LAMBDA c : c # ".")

\* float(str): optional sign, digits, at most one point, a digit at least
IsFloatText(cs) ==
    /\ Cardinality(Dots(Unsigned(cs))) <= 1
    /\ NoDots(Unsigned(cs)) # <<>>
    /\ \A i \in 1..Len(NoDots(Unsigned(cs))) : IsDigit(NoDots(Unsigned(cs))[i])

ParseFloat(cs) ==
    FloatVal(Sign(cs) * DigitsVal(NoDots(Unsigned(cs))),
          IF Dots(Unsigned(cs)) = {} THEN 0
          ELSE Len(Unsigned(cs)) - (CHOOSE i \in Dots(Unsigned(cs)) : TRUE))

\* a field validator answers [ok, value]
Accept(v) == [ok |-> TRUE, value |-> v]
Reject == [ok |-> FALSE, value |-> Missing]

\* the float validator: floats and ints pass, a string passes when float()
\* parses it, everything else (None and a missing value included) fails
FloatField(v) ==
    CASE v.kind = "float" -> Accept(v)
      [] v.kind = "int"   -> Accept(FloatVal(v.num, 0))
      [] v.kind = "str" /\ IsFloatText(Chars(v.word))
                          -> Accept(ParseFloat(Chars(v.word)))
      [] OTHER            -> Reject

LiteralField(v) ==
    IF v.kind = "str" /\ v.word \in TypeLiteral THEN Accept(v) ELSE Reject

ListField(v) == IF v.kind = "list" THEN Accept(v) ELSE Reject
\* Optional[List[float]] = None
OptionalListField(v) ==
    IF v.kind \in {"missing", "none"} THEN Accept(None) ELSE ListField(v)
UuidField(v) == IF v.kind = "uuid" THEN Accept(v) ELSE Reject
DatetimeField(v) == IF v.kind = "datetime" THEN Accept(v) ELSE Reject

\* the declared fields of each class, with their validators
CalculationBaseFields == {"type", "inputs", "user_id"}
CalculationUpdateFields == {"inputs"}
CalculationInDBBaseFields ==
    CalculationBaseFields \cup {"id", "created_at", "updated_at"}
ResponseFields == CalculationInDBBaseFields \cup {"result"}

FieldsOf(sh) ==
    CASE sh = "create" -> CalculationBaseFields
      [] sh = "update" -> CalculationUpdateFields
      [] sh = "response" -> ResponseFields

FieldCheck(sh, f, v) ==
    CASE f = "type" -> LiteralField(v)
      [] f = "inputs" -> IF sh = "update" THEN OptionalListField(v)
                         ELSE ListField(v)
      [] f \in {"user_id", "id"} -> UuidField(v)
      [] f \in {"created_at", "updated_at"} -> DatetimeField(v)
      [] f = "result" -> FloatField(v)

\* BaseModel.__init__: every declared field is validated, keys that are not
\* declared are ignored, one failing field fails the whole model
Validate(sh, d) ==
    IF \A f \in FieldsOf(sh) : FieldCheck(sh, f, d[f]).ok
    THEN [ok |-> TRUE,
          model |-> [f \in FieldsOf(sh) |-> FieldCheck(sh, f, d[f]).value]]
    ELSE [ok |-> FALSE, model |-> <<>>]

AllFields == ResponseFields

TypeInputs == {StrVal(w) : w \in TypeLiteral} \cup
              {StrVal("modulus"), StrVal("Addition"), Missing, None}
ResultInputs == {Missing, None, IntVal(3), FloatVal(25, 1),
                 StrVal("3.5"), StrVal("-2"), StrVal("abc")}

DataInputs ==
    {[f \in AllFields |->
        CASE f = "type" -> t
          [] f = "inputs" -> i
          [] f = "user_id" -> u
          [] f = "id" -> k
          [] f = "result" -> r
          [] OTHER -> Datetime] :
     t \in TypeInputs, i \in {FloatList, Missing, StrVal("abc")},
     u \in {Uuid, Missing}, k \in {Uuid, Missing}, r \in ResultInputs}

\* a caller holds keyword arguments for one of the three classes
InitSchema ==
    /\ IdleDb /\ InitSrv /\ InitUsr /\ InitBr /\ InitMg
    /\ vpc = "input"
    /\ shape \in {"create", "update", "response"}
    /\ data \in DataInputs
    /\ validated = NoModel

\* CalculationCreate(**data)
ValidateCreate ==
    /\ vpc = "input"
    /\ shape = "create"
    /\ validated' = Validate("create", data)
    /\ vpc' = "done"
    /\ UNCHANGED <<shape, data>>
    /\ UNCHANGED nonScVars

\* CalculationUpdate(**data)
ValidateUpdate ==
    /\ vpc = "input"
    /\ shape = "update"
    /\ validated' = Validate("update", data)
    /\ vpc' = "done"
    /\ UNCHANGED <<shape, data>>
    /\ UNCHANGED nonScVars

\* CalculationResponse(**data)
ValidateResponse ==
    /\ vpc = "input"
    /\ shape = "response"
    /\ validated' = Validate("response", data)
    /\ vpc' = "done"
    /\ UNCHANGED <<shape, data>>
    /\ UNCHANGED nonScVars

NextSchema == ValidateCreate \/ ValidateUpdate \/ ValidateResponse

SpecSchema == InitSchema /\ [][NextSchema]_vars

\* ===================================================================
\* Properties
\* ===================================================================
InitSteps == <<"drop_all", "create_all", "init_db">>
RunOver == pc \in {"SCHEMA_DROPPED", "SCHEMA_PRESERVED", "ABORTED"}
InRelease == pc \in {"rel_delete", "rel_commit", "rel_close"}
ReleaseCompleted == pc = "TEST_DONE" /\ session = "closed"
Deleted == {relLog[i] : i \in 1..Len(relLog)} \cap TableNames
Sent(sig) == \E i \in 1..Len(sigs) : sigs[i] = sig

\* C1: once the release of db_session has completed, without --preserve-db
\* every table is empty, and with --preserve-db the release deleted nothing
\* and every row committed by the tests is still there.
C1_ReleaseEmptiesOrPreserves ==
    ReleaseCompleted =>
        /\ (~preserve_db) => db = NoRows
        /\ preserve_db => (Deleted = {} /\ committed \subseteq Rows(db))

\* C2: without --preserve-db, the tables a test finds when it acquires its
\* handle equal the tables the first test of the run found.
C2_EveryTestStartsAsTheFirst ==
    [][(pc # "SESSION_OPEN" /\ pc' = "SESSION_OPEN" /\ ~preserve_db)
        => db' = firstDb']_vars

\* C3: when the release of a test is over, on whatever path, the handle
\* opened for that test is closed.
C3_HandleClosedOnEveryPath ==
    pc = "TEST_DONE" => session = "closed"

\* C4: a database error on the handle is followed by a rollback before the
\* release works on the handle and before the handle is closed.
C4_RollbackBeforeClose ==
    (InRelease \/ session = "closed") => ~poisoned

\* C5: session-scope initialize runs once per run, as drop_all, create_all,
\* init_db in that order; a test holds a handle only after all three have
\* succeeded; when a step raised, no test of the run executes.
C5_InitializeOnceInOrder ==
    /\ \E n \in 0..Len(InitSteps) : initLog = SubSeq(InitSteps, 1, n)
    /\ (tests > 0 \/ session # "none") => (initLog = InitSteps /\ ~initFailed)
    /\ initFailed => (tests = 0 /\ session = "none" /\ pc = "ABORTED")

C5_Witness ==
    tests = 2 /\ pc = "SESSION_OPEN" /\ initLog = InitSteps

C7_RowsPersistAcrossRuns ==
    /\ preserve_db => committed \subseteq Rows(db)
    /\ (preserve_db /\ prevPreserve /\ pc # "ABORTED")
          => prevCommitted \subseteq Rows(db)

\* C7 amended: with --preserve-db the rows committed by tests survive the
\* release and the finalize and are there when the following run starts;
\* the drop_all of that run's initialize removes them, flag or no flag.
C7_RowsPersistUntilNextInitialize ==
    /\ preserve_db => committed \subseteq Rows(db)
    /\ (prevPreserve /\ pc = "UNINITIALIZED")
          => prevCommitted \subseteq Rows(db)
    /\ pc \in {"INIT_DROPPED", "INIT_CREATED"} => db = NoRows

C7_Witness ==
    /\ run = 2 /\ pc = "UNINITIALIZED" /\ prevPreserve /\ preserve_db
    /\ prevCommitted # {} /\ prevCommitted \subseteq Rows(db)

C9_TerminateThenKill ==
    /\ sigs \in {<<>>, <<"terminate">>, <<"terminate", "kill">>}
    /\ (spc = "waiting") => sigs = <<"terminate">>
    /\ (spc = "done" /\ process # "unbound") =>
          /\ Sent("terminate")
          /\ Sent("kill") <=> aliveAfterWait
          /\ process = "exited"

C9_Witness ==
    spc = "done" /\ wfs = "False" /\ sigs = <<"terminate", "kill">>

\* C10: a poll that raised anything but a connection error ends
\* wait_for_server with that exception, which leaves the fixture after its
\* teardown, with no further poll, no False and no yield; a connection
\* error never does.
C10_OnlyConnectionErrorIgnored ==
    /\ lastPoll = "OtherError" =>
          /\ wfs = "raised" /\ srvExc = "OtherError" /\ ~yielded
          /\ spc \in {"teardown", "waiting", "done"}
    /\ wfs = "raised" => lastPoll = "OtherError"
    /\ (spc = "done" /\ wfs = "raised") => Sent("terminate")

C10_Witness ==
    spc = "done" /\ lastPoll = "OtherError" /\ Sent("terminate")

Pos(x) == IF \E i \in 1..Len(relLog) : relLog[i] = x
          THEN CHOOSE i \in 1..Len(relLog) : relLog[i] = x
          ELSE 0
Count(x) == Cardinality({i \in 1..Len(relLog) : relLog[i] = x})

\* C17: the release deletes the child table of every foreign key before its
\* parent table, each table once; it commits once, after the delete of the
\* last table, and never between two deletes.
C17_ReverseDependencyOrder ==
    /\ \A fk \in ForeignKeys :
          Pos(fk[2]) > 0 => (Pos(fk[1]) > 0 /\ Pos(fk[1]) < Pos(fk[2]))
    /\ \A t \in TableNames : Count(t) <= 1
    /\ Count("commit") <= 1
    /\ Pos("commit") > 0 =>
          \A t \in TableNames : Pos(t) > 0 /\ Pos(t) < Pos("commit")
    /\ pc = "rel_delete" => Pos("commit") = 0
    /\ preserve_db => (Deleted = {} /\ Pos("commit") = 0)

C17_Witness ==
    /\ ~preserve_db
    /\ relLog = <<"calculations", "users", "commit", "close">>

\* C19: the teardown of fastapi_server is reached only with a subprocess
\* handle, and when Popen itself failed the fixture raises that spawn error.
C19_TeardownOnlyOnStartedProcess ==
    /\ spc = "teardown" => process # "unbound"
    /\ (spc = "done" /\ process = "unbound") => srvExc = "SpawnError"

\* C18: at most one db_session handle is open at a time, and while a test
\* runs the only open handle is the one opened for that test.
C18_OneHandleAtATime ==
    /\ Cardinality(openHandles) <= 1
    /\ pc = "SESSION_OPEN" => openHandles = {tests}

WaitOver == spc \in {"returned", "raised"}
Retried == {"ConnectionError", "non200"}

\* C16 as stated: wait_for_server always returns: True exactly when a poll
\* started before the deadline returned 200 and False otherwise; a connection
\* error or a non-200 response is followed by the sleep and a further pass;
\* no poll starts once the elapsed time has reached the timeout, so a
\* timeout <= 0 makes no poll and returns False.
C16_AlwaysReturnsTrueOrFalse ==
    /\ WaitOver \/ ENABLED NextWait
    /\ WaitOver => (spc = "returned" /\ wfs \in {"True", "False"})
    /\ wfs = "True" <=> got200
    /\ polls > 0 => pollStart < timeout
    /\ spc = "sleep" => lastPoll \in Retried
    /\ (lastPoll \in Retried /\ spc = "returned")
          => (wfs = "False" /\ elapsed >= timeout)
    /\ timeout <= 0 => (polls = 0 /\ (WaitOver => wfs = "False"))

\* C16 amended: wait_for_server always ends: it returns True exactly when a
\* poll started before the deadline returned 200, raises exactly when a poll
\* raised something other than a connection error, and returns False
\* otherwise; the rest as stated.
C16_ReturnsOrRaises ==
    /\ WaitOver \/ ENABLED NextWait
    /\ spc = "returned" => wfs \in {"True", "False"}
    /\ spc = "raised" <=> wfs = "raised"
    /\ wfs = "raised" <=> lastPoll = "OtherError"
    /\ wfs = "True" <=> got200
    /\ polls > 0 => pollStart < timeout
    /\ polls <= (IF timeout > 0 THEN timeout ELSE 0)
    /\ spc = "sleep" => lastPoll \in Retried
    /\ (lastPoll \in Retried /\ spc = "returned")
          => (wfs = "False" /\ elapsed >= timeout)
    /\ timeout <= 0 => (polls = 0 /\ (WaitOver => wfs = "False"))

C16_Witness ==
    /\ spc = "returned" /\ wfs = "False" /\ timeout = 2 /\ polls = 2
    /\ lastPoll = "ConnectionError"

SeedReturned == ufix = "seed_users" /\ upc = "returned"
Requested == IF hasParam THEN param ELSE 5
UserSet == {users[i] : i \in 1..Len(users)}
SeedPasses(n) == [i \in 1..(2 * n) |-> IF i % 2 = 1 THEN "create" ELSE "add"]

\* C11: seed_users with count N builds N user records, adds each to the
\* handle, commits once after the last add and returns those N records,
\* committed; without a parameter N is 5.
C11_SeedsExactlyN ==
    /\ ufix = "seed_users" =>
          /\ num_users = Requested
          /\ Len(users) <= Requested
          /\ upc = "loop" => callLog = SeedPasses(Len(users))
    /\ SeedReturned =>
          /\ Len(users) = Requested
          /\ Cardinality(UserSet) = Requested
          /\ UserSet \subseteq uCommitted
          /\ callLog = SeedPasses(Requested) \o <<"commit">>

C11_Witness ==
    SeedReturned /\ ~hasParam /\ Len(users) = 5 /\ calls = 2

\* C12: no two users built by create_fake_user in a run share an email, and
\* no two share a username, whichever fixtures asked for them.
C12_UniqueAcrossCalls ==
    /\ Cardinality(prodEmails) = made
    /\ Cardinality(prodNames) = made

C12_Witness ==
    calls = 2 /\ made = 3 /\ ufix = "seed_users" /\ upc = "returned"

\* C13: when a test that uses the page fixture is over, the context and the
\* page opened for it are closed, whatever the test, new_page or page.close
\* did.
C13_ContextAndPageClosed ==
    (bpc = "ready" /\ pageTests > 0) =>
        (context # "open" /\ page # "open")

\* C15: when a managed_db_session block is over: after a database error the
\* manager logged, rolled back and closed, in that order, and the caller got
\* the same error; after any other exception or a normal end it only
\* closed; the handle was closed exactly once in every case.
ManagedOver == mpc = "exited"

Closes == Cardinality({i \in 1..Len(mSteps) : mSteps[i] = "close"})

C15_LogRollbackCloseReraise ==
    ManagedOver =>
        /\ mBody \in DbErrors =>
            (mSteps = <<"log", "rollback", "close">> /\ mRaised = mBody)
        /\ mBody \in OtherErrors =>
            (mSteps = <<"close">> /\ mRaised = mBody)
        /\ mBody = "ok" => (mSteps = <<"close">> /\ mRaised = "none")
        /\ Closes = 1
        /\ mSession = "closed"

C15_Witness ==
    /\ ManagedOver
    /\ mUses = 2
    /\ mBody = "IntegrityError"
    /\ mRaised = "IntegrityError"
    /\ mHistory[1] = <<"ValueError", "ValueError">>

\* C14: a create shape is accepted only with one of the four type values
\* (and is accepted with every one of them when the other fields are good);
\* a response shape is accepted only when the input carries a number as its
\* result; an accepted create or update shape has no result field.
Validated == vpc = "done" /\ data # [f \in {} |-> Missing]
Accepted == Validated /\ validated.ok
Rejected == Validated /\ ~validated.ok

IsFour(v) ==
    v.kind = "str" /\
    v.word \in {"addition", "subtraction", "multiplication", "division"}
IsNumber(v) == v.kind \in {"int", "float"}
\* what float() makes of the value, when it makes something of it
IsNumeric(v) == IsNumber(v) \/ (v.kind = "str" /\ IsFloatText(Chars(v.word)))

CreateTypeRule ==
    (Validated /\ shape = "create") =>
        /\ validated.ok => IsFour(data["type"])
        /\ (IsFour(data["type"]) /\ data["inputs"].kind = "list"
                /\ data["user_id"].kind = "uuid") => validated.ok

NoResultRule ==
    (Accepted /\ shape \in {"create", "update"}) =>
        "result" \notin DOMAIN validated.model

C14_ShapesAsStated ==
    /\ CreateTypeRule
    /\ (Validated /\ shape = "response" /\ ~IsNumber(data["result"]))
            => ~validated.ok
    /\ NoResultRule

\* C14 (as amended): as above, except that the response shape is accepted
\* exactly when float() can convert the result (a number, or a string such
\* as "3.5") and the other fields are good; the accepted response always
\* carries a float.
C14_ShapesWithCoercion ==
    /\ CreateTypeRule
    /\ (Validated /\ shape = "response" /\ ~IsNumeric(data["result"]))
            => ~validated.ok
    /\ (Accepted /\ shape = "response") =>
            /\ "result" \in DOMAIN validated.model
            /\ validated.model["result"].kind = "float"
    /\ NoResultRule

C14_Witness ==
    /\ Accepted
    /\ shape = "response"
    /\ data["type"] = StrVal("division")
    /\ data["result"] = StrVal("3.5")
    /\ validated.model["result"] = FloatVal(35, 1)

====
